---- MODULE Spec2Model ----
(***************************************************************************)
(* PACOH-VI meta-learner (meta_learn/GPR_meta_vi.py) and the random GP,    *)
(* its hierarchical prior and its variational posterior                    *)
(* (src/random_gp.py).                                                     *)
(*                                                                         *)
(* Parameter-group names are Python strings; they are modelled as          *)
(* sequences of one-character strings so that concatenation, the           *)
(* substring test `a in b` and str.replace are computed, not assumed.      *)
(* A tensor is [shape, val]: val holds the entries along the last axis.    *)
(***************************************************************************)
EXTENDS Integers, Sequences, FiniteSets, TLC

(* ------------------------------------------------------------------ *)
(* Bounds of the model                                                  *)
(* ------------------------------------------------------------------ *)
MaxTasks == 2       \* number of meta-training tasks is in 1..MaxTasks
MaxIter == 2        \* n_iter and num_iter_fit are in 0..MaxIter
MaxSteps == 3       \* optimizer steps of one learner explored
MaxSvi == 2         \* svi_batch_size and n_posterior_samples are in 1..MaxSvi
MaxLoss == 1        \* a loss value is in 0..MaxLoss
MaxInstances == 2   \* GP instances materialized and kept by a client
MaxDeclares == 2    \* declarations a client makes after construction
MaxDim == 2         \* input and feature dimensions are in 1..MaxDim
MaxBest == 2        \* best configurations selected for the test runs
MaxDecays == 2      \* scheduler periods one learner is trained through
MaxRounds == 2      \* training rounds of one search trial

(* ------------------------------------------------------------------ *)
(* String literals of the source                                        *)
(* ------------------------------------------------------------------ *)
S_mean_nn == <<"m", "e", "a", "n", "_", "n", "n">>
S_kernel_nn == <<"k", "e", "r", "n", "e", "l", "_", "n", "n">>
S_constant_mean == <<"c", "o", "n", "s", "t", "a", "n", "t", "_", "m", "e", "a", "n">>
S_lengthscale == <<"l", "e", "n", "g", "t", "h", "s", "c", "a", "l", "e">>
S_noise == <<"n", "o", "i", "s", "e">>
S_weight == <<"w", "e", "i", "g", "h", "t">>
S_bias == <<"b", "i", "a", "s">>
S_loc == <<"_", "l", "o", "c">>
S_scale_raw == <<"_", "s", "c", "a", "l", "e", "_", "r", "a", "w">>
S_const_mean_loc == <<"c", "o", "n", "s", "t", "_", "m", "e", "a", "n", "_", "l", "o", "c">>
S_const_mean_scale_raw == <<"c", "o", "n", "s", "t", "_", "m", "e", "a", "n", "_", "s", "c", "a", "l", "e", "_", "r", "a", "w">>
S_layer0 == <<"l", "a", "y", "e", "r", "0">>
S_out == <<"o", "u", "t">>
Dot == <<".">>

(* ------------------------------------------------------------------ *)
(* Python string and dict primitives                                    *)
(* ------------------------------------------------------------------ *)
\* sub in s
Contains(sub, s) ==
    \E i \in 0..(Len(s) - Len(sub)) : SubSeq(s, i + 1, i + Len(sub)) = sub

\* s.replace(old, new) for one-character old and new
Replace(s, old, new) ==
    [i \in 1..Len(s) |-> IF s[i] = old THEN new ELSE s[i]]

\* list(d.keys()) of an OrderedDict kept as a sequence of entries
Keys(d) == [i \in 1..Len(d) |-> d[i].name]

\* name in list(d.keys())
HasKey(d, name) == \E i \in 1..Len(d) : d[i].name = name

\* d[name] = entry on an OrderedDict: a new key is appended, an existing
\* key keeps its position and gets the new value
DictSet(d, entry) ==
    IF HasKey(d, entry.name)
    THEN [i \in 1..Len(d) |-> IF d[i].name = entry.name THEN entry ELSE d[i]]
    ELSE Append(d, entry)

\* shape[-1]
LastDim(shape) == shape[Len(shape)]

\* torch.zeros / torch.ones and a constant fill, along the last axis
Fill(shape, v) == [shape |-> shape, val |-> [i \in 1..LastDim(shape) |-> v]]

NoErr == "none"

(* ------------------------------------------------------------------ *)
(* VectorizedGP: the parameter registry of the structural GP            *)
(* ------------------------------------------------------------------ *)
\* _param without its assertion on the name
_param_unchecked(d, name, tensor) ==
    [err |-> NoErr, d |-> DictSet(d, [name |-> name, tensor |-> tensor])]

\* VectorizedGP._param: declare one named tensor; the result is the
\* registry and the error raised, if any
_param(d, name, tensor) ==
    IF HasKey(d, name)
    THEN [err |-> "AssertionError", d |-> d]
    ELSE [err |-> NoErr, d |-> DictSet(d, [name |-> name, tensor |-> tensor])]

\* a step that runs only if nothing was raised before it
Ok(d) == [err |-> NoErr, d |-> d]

\* VectorizedGP._param_module: declare every parameter of a sub-module as
\* name + '.' + param_name, in the sub-module's order; the first failing
\* declaration ends the loop and keeps what was declared before it
RECURSIVE _param_module_from(_, _, _, _)
_param_module_from(r, name, module, i) ==
    IF r.err # NoErr \/ i > Len(module)
    THEN r
    ELSE _param_module_from(_param(r.d, name \o Dot \o module[i].name, module[i].tensor),
                            name, module, i + 1)

_param_module(d, name, module) == _param_module_from(Ok(d), name, module, 1)

\* NeuralNetworkVectorized(input_dim, output_dim, layer_sizes).named_parameters():
\* one flat weight and one bias per layer, the output layer last
NN_layer(prefix, n_in, n_out) ==
    << [name |-> prefix \o Dot \o S_weight, tensor |-> Fill(<<n_in * n_out>>, 0)],
       [name |-> prefix \o Dot \o S_bias, tensor |-> Fill(<<n_out>>, 0)] >>

NeuralNetworkVectorized(input_dim, output_dim, layer_sizes) ==
    IF Len(layer_sizes) = 0
    THEN NN_layer(S_out, input_dim, output_dim)
    ELSE NN_layer(S_layer0, input_dim, layer_sizes[1])
             \o NN_layer(S_out, layer_sizes[1], output_dim)

\* VectorizedGP.__init__, the mean function's groups
VGP_mean(input_dim, mean_module_str, mean_nn_layers) ==
    IF mean_module_str = "NN"
    THEN _param_module(<<>>, S_mean_nn, NeuralNetworkVectorized(input_dim, 1, mean_nn_layers))
    ELSE IF mean_module_str = "constant"
    THEN _param(<<>>, S_constant_mean, Fill(<<1, 1>>, 0))
    ELSE [err |-> "NotImplementedError", d |-> <<>>]

\* VectorizedGP.__init__, the lengthscale of a neural-network kernel
VGP_lengthscale_nn(r, feature_dim) ==
    IF r.err # NoErr THEN r ELSE _param(r.d, S_lengthscale, Fill(<<1, feature_dim>>, 1))

\* VectorizedGP.__init__, the kernel's groups
VGP_covar(r, input_dim, feature_dim, covar_module_str, kernel_nn_layers) ==
    IF r.err # NoErr THEN r
    ELSE IF covar_module_str = "NN"
    THEN VGP_lengthscale_nn(_param_module(r.d, S_kernel_nn,
             NeuralNetworkVectorized(input_dim, feature_dim, kernel_nn_layers)), feature_dim)
    ELSE IF covar_module_str = "SE"
    THEN _param(r.d, S_lengthscale, Fill(<<1, input_dim>>, 1))
    ELSE [err |-> "NotImplementedError", d |-> r.d]

\* VectorizedGP.__init__, the noise group
VGP_noise(r) ==
    IF r.err # NoErr THEN r ELSE _param(r.d, S_noise, Fill(<<1, 1>>, 1))

VGP_object(r, mean_module_str, covar_module_str) ==
    [err |-> r.err, _params |-> r.d, mean_module_str |-> mean_module_str,
     covar_module_str |-> covar_module_str]

\* VectorizedGP.__init__: the object after the constructor, or its error
VectorizedGP(input_dim, feature_dim, covar_module_str, mean_module_str, mean_nn_layers, kernel_nn_layers) ==
    VGP_object(VGP_noise(VGP_covar(VGP_mean(input_dim, mean_module_str, mean_nn_layers),
                                   input_dim, feature_dim, covar_module_str,
                                   kernel_nn_layers)),
               mean_module_str, covar_module_str)

\* VectorizedGP.parameter_shapes: name -> tensor shape, in registry order
GP_parameter_shapes(_params) ==
    [i \in 1..Len(_params) |-> [name |-> _params[i].name, shape |-> _params[i].tensor.shape]]

(* ------------------------------------------------------------------ *)
(* RandomGP: the hierarchical prior over the GP's parameter groups      *)
(* ------------------------------------------------------------------ *)
\* Normal(loc, scale).to_event(1) and LogNormal(loc, scale).to_event(1) over a
\* tensor of the given shape: the event is the last axis
Dist(family, loc, scale, shape) ==
    [family |-> family, loc |-> loc, scale |-> scale, event_shape |-> <<LastDim(shape)>>]

\* RandomGP._param_dist: register the prior distribution of one group
_param_dist(d, name, dist) ==
    IF HasKey(d, name)
    THEN [err |-> "AssertionError", d |-> d]
    ELSE [err |-> NoErr, d |-> DictSet(d, [name |-> name, dist |-> dist])]

\* the loop over gp.parameter_shapes(): four independent tests per group
Prior_constant_mean(r, name) ==
    IF r.err = NoErr /\ name = S_constant_mean
    THEN _param_dist(r.d, name, Dist("Normal", "0", "1", <<1>>))
    ELSE r

Prior_lengthscale(r, name, shape) ==
    IF r.err = NoErr /\ name = S_lengthscale
    THEN _param_dist(r.d, name, Dist("LogNormal", "0", "1", <<LastDim(shape)>>))
    ELSE r

\* the loop without a prior for the noise group
Prior_noise_missing(r, name) == r

Prior_noise(r, name) ==
    IF r.err = NoErr /\ name = S_noise
    THEN _param_dist(r.d, name, Dist("LogNormal", "log(0.1)", "0.2", <<1>>))
    ELSE r

Prior_nn(r, name, shape, weight_prior_std, bias_prior_std) ==
    IF r.err = NoErr /\ (Contains(S_mean_nn, name) \/ Contains(S_kernel_nn, name))
    THEN IF Contains(S_weight, name)
         THEN _param_dist(r.d, name, Dist("Normal", "0", weight_prior_std, shape))
         ELSE IF Contains(S_bias, name)
         THEN _param_dist(r.d, name, Dist("Normal", "0", bias_prior_std, shape))
         ELSE [err |-> "NotImplementedError", d |-> r.d]
    ELSE r

RandomGP_loop_body(r, name, shape, weight_prior_std, bias_prior_std) ==
    Prior_nn(Prior_noise(Prior_lengthscale(Prior_constant_mean(r, name), name, shape), name),
             name, shape, weight_prior_std, bias_prior_std)

RECURSIVE RandomGP_loop(_, _, _, _, _)
RandomGP_loop(r, shapes, i, weight_prior_std, bias_prior_std) ==
    IF r.err # NoErr \/ i > Len(shapes)
    THEN r
    ELSE RandomGP_loop(RandomGP_loop_body(r, shapes[i].name, shapes[i].shape,
                                          weight_prior_std, bias_prior_std),
                       shapes, i + 1, weight_prior_std, bias_prior_std)

\* the check that prior and gp are aligned: zip stops at the shorter sequence
Min(a, b) == IF a < b THEN a ELSE b

ZipAligned(gp_keys, prior_keys) ==
    \A i \in 1..Min(Len(gp_keys), Len(prior_keys)) : gp_keys[i] = prior_keys[i]

RandomGP_object(gp, loop, prior_factor) ==
    [err |-> IF gp.err # NoErr THEN gp.err
             ELSE IF loop.err # NoErr THEN loop.err
             ELSE IF ~ZipAligned(Keys(gp._params), Keys(loop.d)) THEN "AssertionError"
             ELSE NoErr,
     gp |-> gp, _param_dists |-> loop.d, prior_factor |-> prior_factor]

RandomGP_prior(gp, prior_factor, weight_prior_std, bias_prior_std) ==
    RandomGP_object(gp,
        IF gp.err # NoErr THEN Ok(<<>>)
        ELSE RandomGP_loop(Ok(<<>>), GP_parameter_shapes(gp._params), 1,
                           weight_prior_std, bias_prior_std),
        prior_factor)

\* RandomGP.__init__(size_in, prior_factor, weight_prior_std, bias_prior_std, **kwargs)
RandomGP(size_in, prior_factor, weight_prior_std, bias_prior_std, kwargs) ==
    RandomGP_prior(VectorizedGP(size_in, kwargs.feature_dim, kwargs.covar_module_str,
                                kwargs.mean_module_str, kwargs.mean_nn_layers,
                                kwargs.kernel_nn_layers),
                   prior_factor, weight_prior_std, bias_prior_std)

\* RandomGP.parameter_shapes: name -> event shape of the group's prior
parameter_shapes(_param_dists) ==
    [i \in 1..Len(_param_dists) |->
        [name |-> _param_dists[i].name, shape |-> _param_dists[i].dist.event_shape]]

(* ------------------------------------------------------------------ *)
(* RandomGPPosterior: the variational posterior                         *)
(* ------------------------------------------------------------------ *)
\* setattr(self, attr, torch.nn.Parameter(...)) on a torch.nn.Module: a
\* parameter name must not contain "."; an existing attribute is replaced
SetAttr(params, attr, shape) ==
    IF Contains(Dot, attr)
    THEN [err |-> "KeyError", params |-> params]
    ELSE [err |-> NoErr,
          params |-> DictSet(params, [name |-> attr, shape |-> shape, val |-> 0])]

\* RandomGPPosterior._dist: register the distribution function of one group
_dist(d, name, dist_get_fn) ==
    IF HasKey(d, name)
    THEN [err |-> "AssertionError", d |-> d]
    ELSE [err |-> NoErr, d |-> DictSet(d, [name |-> name, fn |-> dist_get_fn])]

\* the two attributes a distribution function reads when called with name
LocAttr(name, fn) == IF fn = "const_mean" THEN S_const_mean_loc ELSE name \o S_loc

ScaleAttr(name, fn) ==
    IF fn = "const_mean" THEN S_const_mean_scale_raw ELSE name \o S_scale_raw

\* getattr(self, attr)
GetAttr(params, attr) == CHOOSE e \in {params[i] : i \in 1..Len(params)} : e.name = attr

\* dist_fn(name): the group's distribution over its current loc and scale
DistFn(params, name, fn) ==
    [family |-> IF fn = "LogNormal" THEN "LogNormal" ELSE "Normal",
     loc |-> LocAttr(name, fn), scale |-> ScaleAttr(name, fn),
     event_shape |-> <<LastDim(GetAttr(params, LocAttr(name, fn)).shape)>>]

\* RandomGPPosterior.forward().dists, or AttributeError when a function
\* reads an attribute that was never set
forward(post) ==
    IF \E i \in 1..Len(post._param_dist_funcs) :
           LET e == post._param_dist_funcs[i]
           IN  ~HasKey(post.params, LocAttr(e.name, e.fn))
               \/ ~HasKey(post.params, ScaleAttr(e.name, e.fn))
    THEN [err |-> "AttributeError", dists |-> <<>>]
    ELSE [err |-> NoErr,
          dists |-> [i \in 1..Len(post._param_dist_funcs) |->
                        DistFn(post.params, post._param_dist_funcs[i].name,
                               post._param_dist_funcs[i].fn)]]

\* declare the loc and scale_raw tensors, then register fn under name
Posterior_setattr(post, attr, shape) ==
    IF post.err # NoErr THEN post
    ELSE [post EXCEPT !.err = SetAttr(post.params, attr, shape).err,
                      !.params = SetAttr(post.params, attr, shape).params]

Posterior_dist(post, name, fn) ==
    IF post.err # NoErr THEN post
    ELSE [post EXCEPT !.err = _dist(post._param_dist_funcs, name, fn).err,
                      !._param_dist_funcs = _dist(post._param_dist_funcs, name, fn).d]

Posterior_declare(post, attr_loc, attr_scale, shape, name, fn) ==
    Posterior_dist(Posterior_setattr(Posterior_setattr(post, attr_loc, shape),
                                     attr_scale, shape),
                   name, fn)

\* the loop over named_param_shapes: three independent tests per group; the
\* third one renames the group before it declares it
Posterior_constant_mean(post, name, shape) ==
    IF post.err = NoErr /\ name = S_constant_mean
    THEN Posterior_declare(post, S_const_mean_loc, S_const_mean_scale_raw, shape,
                           name, "const_mean")
    ELSE post

Posterior_positive(post, name, shape) ==
    IF post.err = NoErr /\ (name = S_lengthscale \/ name = S_noise)
    THEN Posterior_declare(post, name \o S_loc, name \o S_scale_raw, shape,
                           name, "LogNormal")
    ELSE post

Posterior_declare_nn(post, name, shape) ==
    Posterior_declare(post, name \o S_loc, name \o S_scale_raw, shape, name, "Normal")

Posterior_nn(post, name, shape) ==
    IF post.err = NoErr /\ (Contains(S_mean_nn, name) \/ Contains(S_kernel_nn, name))
    THEN Posterior_declare_nn(post, Replace(name, ".", "_"), shape)
    ELSE post

Posterior_loop_body(post, name, shape) ==
    Posterior_nn(Posterior_positive(Posterior_constant_mean(post, name, shape),
                                    name, shape),
                 name, shape)

RECURSIVE Posterior_loop(_, _, _)
Posterior_loop(post, shapes, i) ==
    IF post.err # NoErr \/ i > Len(shapes)
    THEN post
    ELSE Posterior_loop(Posterior_loop_body(post, shapes[i].name, shapes[i].shape),
                        shapes, i + 1)

\* the check that ends __init__: every distribution's event shape is the
\* shape its group was declared with (zip stops at the shorter sequence)
Posterior_check(post, fwd, named_param_shapes) ==
    IF post.err # NoErr THEN post
    ELSE IF fwd.err # NoErr THEN [post EXCEPT !.err = fwd.err]
    ELSE IF \E i \in 1..Min(Len(named_param_shapes), Len(fwd.dists)) :
                fwd.dists[i].event_shape # named_param_shapes[i].shape
    THEN [post EXCEPT !.err = "AssertionError"]
    ELSE post

Posterior_checked(post, named_param_shapes) ==
    Posterior_check(post, forward(post), named_param_shapes)

\* RandomGPPosterior.__init__(named_param_shapes)
RandomGPPosterior(named_param_shapes) ==
    Posterior_checked(
        Posterior_loop([err |-> NoErr, params |-> <<>>, _param_dist_funcs |-> <<>>],
                       named_param_shapes, 1),
        named_param_shapes)

(* ------------------------------------------------------------------ *)
(* Materializing a parameterized GP instance                            *)
(* ------------------------------------------------------------------ *)
\* the length of the flat parameter vector: the sum of the last axes
RECURSIVE VectorSize(_)
VectorSize(_params) ==
    IF Len(_params) = 0 THEN 0
    ELSE LastDim(_params[1].tensor.shape) + VectorSize(Tail(_params))

\* VectorizedModel.set_parameters_as_vector: each group takes its slice of
\* the vector, in registry order; the slices must use up the vector
RECURSIVE SetFromVector(_, _, _)
SetFromVector(_params, vector, idx) ==
    IF Len(_params) = 0 THEN <<>>
    ELSE LET n == LastDim(_params[1].tensor.shape)
         IN  << [name |-> _params[1].name,
                 tensor |-> [shape |-> _params[1].tensor.shape,
                             val |-> SubSeq(vector, idx + 1, idx + n)]] >>
             \o SetFromVector(Tail(_params), vector, idx + n)

set_parameters_as_vector(gp_model, vector) ==
    IF VectorSize(gp_model._params) # Len(vector)
    THEN [gp_model EXCEPT !.err = "AssertionError"]
    ELSE [gp_model EXCEPT !._params = SetFromVector(gp_model._params, vector, 0)]

\* copy.deepcopy(self.gp): a new object with the same contents
deepcopy(obj) == obj

\* the heap after a new GP object was allocated, and the reference to it
Alloc(heap, gp_model) ==
    IF gp_model.err # NoErr
    THEN [err |-> gp_model.err, heap |-> heap, ref |-> 0]
    ELSE [err |-> NoErr, heap |-> Append(heap, gp_model), ref |-> Len(heap) + 1]

\* get_forward_fn without the copy: the vector is written into self.gp itself,
\* which is returned
get_forward_fn_shared(heap, params) ==
    IF set_parameters_as_vector(heap[1], params).err # NoErr
    THEN [err |-> "AssertionError", heap |-> heap, ref |-> 0]
    ELSE [err |-> NoErr,
          heap |-> [heap EXCEPT ![1] = set_parameters_as_vector(heap[1], params)],
          ref |-> 1]

\* RandomGP.get_forward_fn on a heap of GP objects whose cell 1 is self.gp:
\* copy.deepcopy(self.gp) is a new cell, the vector is written into the new
\* cell, and the reference to it is returned
get_forward_fn(heap, params) ==
    Alloc(heap, set_parameters_as_vector(deepcopy(heap[1]), params))

(* ------------------------------------------------------------------ *)
(* State                                                                *)
(* ------------------------------------------------------------------ *)
VARIABLES
    gp_heap,       \* the VectorizedGP objects alive; cell 1 is RandomGP.gp
    random_gp,     \* the RandomGP object: its prior registry
    posterior,     \* the RandomGPPosterior object
    instances,     \* GP instances a client holds: [ref, vector]
    last_call,     \* the last call on the random GP or the posterior
    n_declares,    \* declarations made by clients after construction
    learner,       \* "none", "ready" or "failed": the MetaLearner object
    cfg,           \* the attributes __init__ stores from its arguments
    task_dicts,    \* the cached, normalized task tensors
    norm_stats,    \* the normalization statistics
    fitted,        \* the fitted flag
    optimizer,     \* the optimizer's state
    lr_scheduler,  \* the learning-rate scheduler's state
    rds_numpy,     \* the learner's numpy random state: draws consumed
    frame,         \* the meta_fit call in progress: pc and locals
    ret,           \* how the last meta_fit or predict call ended
    configs,       \* main: the configuration dicts alive, by reference
    test_configs,  \* main: the list test_configs, as references
    tasks,         \* the train_test tasks submitted to the workers
    result_dicts,  \* main: what ray.get returned
    main_pc,       \* main: its position after the search
    trial          \* the train_reg trial in progress

gp_vars == <<gp_heap, random_gp, posterior, instances, last_call, n_declares>>

learner_vars == <<learner, cfg, task_dicts, norm_stats, fitted, optimizer, lr_scheduler, rds_numpy, frame, ret>>

search_vars == <<configs, test_configs, tasks, result_dicts, main_pc, trial>>

vars == <<gp_heap, random_gp, posterior, instances, last_call, n_declares, learner, cfg, task_dicts, norm_stats, fitted, optimizer, lr_scheduler, rds_numpy, frame, ret, configs, test_configs, tasks, result_dicts, main_pc, trial>>

\* an object that has not been constructed
None == [err |-> "absent"]

NoCall == [op |-> "none", name |-> <<>>, err |-> NoErr]

NoFrame == [pc |-> "idle"]

NoRet == [op |-> "none", kind |-> "none", val |-> 0, err |-> NoErr]

\* nothing constructed yet
InitGP ==
    /\ gp_heap = <<>>
    /\ random_gp = None
    /\ posterior = None
    /\ instances = <<>>
    /\ last_call = NoCall
    /\ n_declares = 0

InitLearner ==
    /\ learner = "none"
    /\ cfg = None
    /\ task_dicts = <<>>
    /\ norm_stats = None
    /\ fitted = FALSE
    /\ optimizer = None
    /\ lr_scheduler = None
    /\ rds_numpy = 0
    /\ frame = NoFrame
    /\ ret = NoRet

NoTrial == [pc |-> "none"]

InitSearch ==
    /\ configs = <<>>
    /\ test_configs = <<>>
    /\ tasks = <<>>
    /\ result_dicts = <<>>
    /\ main_pc = "select_best_configs"
    /\ trial = NoTrial

Init == InitGP /\ InitLearner /\ InitSearch

(* ------------------------------------------------------------------ *)
(* The random GP and the posterior used on their own                    *)
(* ------------------------------------------------------------------ *)
Dims == 1..MaxDim

\* feature_dim: the default of VectorizedGP.__init__, which no caller overrides
FeatureDim == 2

LayerSizes == {<<>>, <<MaxDim>>}

Families == {"NN", "constant", "SE"}

\* the keyword arguments RandomGP passes on to VectorizedGP
Kwargs ==
    [feature_dim : {FeatureDim}, covar_module_str : Families, mean_module_str : Families,
     mean_nn_layers : LayerSizes, kernel_nn_layers : LayerSizes]

\* random_gp = RandomGP(size_in, prior_factor, weight_prior_std, bias_prior_std, **kwargs)
New_RandomGP(size_in, kwargs) ==
    /\ random_gp.err = "absent"
    /\ LET r == RandomGP(size_in, "1.0", "1.0", "3.0", kwargs)
       IN  /\ random_gp' = [err |-> r.err, _param_dists |-> r._param_dists,
                            prior_factor |-> r.prior_factor]
           /\ gp_heap' = IF r.err = NoErr THEN <<r.gp>> ELSE <<>>
           /\ last_call' = [op |-> "RandomGP", name |-> <<>>, err |-> r.err]
    /\ UNCHANGED <<posterior, instances, n_declares>>
    /\ UNCHANGED learner_vars
    /\ UNCHANGED search_vars

\* posterior = RandomGPPosterior(random_gp.parameter_shapes())
New_RandomGPPosterior ==
    /\ random_gp.err = NoErr
    /\ posterior.err = "absent"
    /\ posterior' = RandomGPPosterior(parameter_shapes(random_gp._param_dists))
    /\ last_call' = [op |-> "RandomGPPosterior", name |-> <<>>, err |-> posterior'.err]
    /\ UNCHANGED <<gp_heap, random_gp, instances, n_declares>>
    /\ UNCHANGED learner_vars
    /\ UNCHANGED search_vars

Ready ==
    /\ random_gp.err = NoErr
    /\ posterior.err = NoErr

\* names and tensors a client declares after construction
S_extra == <<"e", "x", "t", "r", "a">>

ClientNames == {S_noise, S_lengthscale, S_extra}

ClientTensor == Fill(<<1, MaxDim + 1>>, 7)

\* random_gp.gp._param(name, tensor)
Call_param(name) ==
    /\ Ready
    /\ n_declares < MaxDeclares
    /\ LET r == _param(gp_heap[1]._params, name, ClientTensor)
       IN  /\ gp_heap' = [gp_heap EXCEPT ![1]._params = r.d]
           /\ last_call' = [op |-> "_param", name |-> name, err |-> r.err]
    /\ n_declares' = n_declares + 1
    /\ UNCHANGED <<random_gp, posterior, instances>>
    /\ UNCHANGED learner_vars
    /\ UNCHANGED search_vars

\* random_gp.gp._param_module(name, module)
Call_param_module(name) ==
    /\ Ready
    /\ n_declares < MaxDeclares
    /\ LET r == _param_module(gp_heap[1]._params, name, NeuralNetworkVectorized(1, 1, <<1>>))
       IN  /\ gp_heap' = [gp_heap EXCEPT ![1]._params = r.d]
           /\ last_call' = [op |-> "_param_module", name |-> name, err |-> r.err]
    /\ n_declares' = n_declares + 1
    /\ UNCHANGED <<random_gp, posterior, instances>>
    /\ UNCHANGED learner_vars
    /\ UNCHANGED search_vars

\* random_gp._param_dist(name, dist)
Call_param_dist(name) ==
    /\ Ready
    /\ n_declares < MaxDeclares
    /\ LET r == _param_dist(random_gp._param_dists, name,
                            Dist("Normal", "7", "7", <<MaxDim + 1>>))
       IN  /\ random_gp' = [random_gp EXCEPT !._param_dists = r.d]
           /\ last_call' = [op |-> "_param_dist", name |-> name, err |-> r.err]
    /\ n_declares' = n_declares + 1
    /\ UNCHANGED <<gp_heap, posterior, instances>>
    /\ UNCHANGED learner_vars
    /\ UNCHANGED search_vars

\* posterior._dist(name, dist_get_fn)
Call_dist(name) ==
    /\ Ready
    /\ n_declares < MaxDeclares
    /\ LET r == _dist(posterior._param_dist_funcs, name, "client")
       IN  /\ posterior' = [posterior EXCEPT !._param_dist_funcs = r.d]
           /\ last_call' = [op |-> "_dist", name |-> name, err |-> r.err]
    /\ n_declares' = n_declares + 1
    /\ UNCHANGED <<gp_heap, random_gp, instances>>
    /\ UNCHANGED learner_vars
    /\ UNCHANGED search_vars

\* parameter vectors a client passes: a constant one, a ramp, and one that is
\* one entry short
Vectors(n) ==
    {[i \in 1..n |-> 5], [i \in 1..n |-> 10 + i], [i \in 1..(n - 1) |-> 5]}

ClientVectors == IF Ready THEN Vectors(VectorSize(gp_heap[1]._params)) ELSE {}

\* fn = random_gp.get_forward_fn(params), and the client keeps fn
Call_get_forward_fn(params) ==
    /\ Ready
    /\ n_declares = 0
    /\ Len(instances) < MaxInstances
    /\ LET r == get_forward_fn(gp_heap, params)
       IN  /\ gp_heap' = r.heap
           /\ instances' = IF r.err = NoErr
                           THEN Append(instances, [ref |-> r.ref, vector |-> params])
                           ELSE instances
           /\ last_call' = [op |-> "get_forward_fn", name |-> <<>>, err |-> r.err]
    /\ UNCHANGED <<random_gp, posterior, n_declares>>
    /\ UNCHANGED learner_vars
    /\ UNCHANGED search_vars

\* random_gp.log_prob(params, x_data, y_data): the prior's log-density plus
\* the marginal log-likelihood of a materialized instance, which is dropped
\* when the call returns (the cells the client holds stay)
Call_log_prob(params) ==
    /\ Ready
    /\ n_declares = 0
    /\ LET r == get_forward_fn(gp_heap, params)
       IN  /\ gp_heap' = SubSeq(r.heap, 1, Len(gp_heap))
           /\ last_call' = [op |-> "log_prob", name |-> <<>>, err |-> r.err]
    /\ UNCHANGED <<random_gp, posterior, instances, n_declares>>
    /\ UNCHANGED learner_vars
    /\ UNCHANGED search_vars

NextGP ==
    \/ \E size_in \in Dims, kwargs \in Kwargs : New_RandomGP(size_in, kwargs)
    \/ New_RandomGPPosterior
    \/ \E name \in ClientNames : Call_param(name)
    \/ \E name \in {S_mean_nn, S_kernel_nn} : Call_param_module(name)
    \/ \E name \in ClientNames : Call_param_dist(name)
    \/ \E name \in ClientNames : Call_dist(name)

\* a client that constructs the random GP and the posterior and then declares
\* further groups
SpecGP == Init /\ [][NextGP]_vars

NextFn ==
    \/ \E size_in \in Dims, kwargs \in Kwargs : New_RandomGP(size_in, kwargs)
    \/ New_RandomGPPosterior
    \/ \E params \in ClientVectors : Call_get_forward_fn(params)
    \/ \E params \in ClientVectors : Call_log_prob(params)

\* a client that constructs the random GP and the posterior and then
\* materializes instances and evaluates log-probabilities
SpecFn == Init /\ [][NextFn]_vars

(* ------------------------------------------------------------------ *)
(* GPRegressionMetaLearnedVI: construction                              *)
(* ------------------------------------------------------------------ *)
\* how a call ended: it returned val, or it raised err
Raised(op, err) == [op |-> op, kind |-> "raised", val |-> 0, err |-> err]

Returned(op, val) == [op |-> op, kind |-> "returned", val |-> val, err |-> NoErr]

\* the local variable loss before its first assignment
Unbound == [bound |-> FALSE, val |-> 0]

\* how Python binds a call to a signature: too many positional arguments, an
\* unknown keyword or a required parameter left without a value is a TypeError
BindErr(sig, call) ==
    IF \/ call.npos > Len(sig.names)
       \/ \E k \in call.kw : \A i \in 1..Len(sig.names) : sig.names[i] # k
       \/ \E i \in 1..sig.required : i > call.npos /\ sig.names[i] \notin call.kw
    THEN "TypeError"
    ELSE NoErr

\* RandomGP.log_prob(self, params, x_data, y_data)
Sig_RandomGP_log_prob == [names |-> <<"params", "x_data", "y_data">>, required |-> 3]

\* RandomGPMeta.log_prob(self, params, train_data_tuples) of meta_learn.random_gp
Sig_RandomGPMeta_log_prob == [names |-> <<"params", "train_data_tuples">>, required |-> 2]

\* RandomGPPosterior.__init__(self, named_param_shapes, init_std=0.1)
Sig_RandomGPPosterior == [names |-> <<"named_param_shapes", "init_std">>, required |-> 1]

\* RandomGPPosterior.__init__ of meta_learn.random_gp, which takes cov_type
Sig_RandomGPPosterior_meta ==
    [names |-> <<"named_param_shapes", "init_std", "cov_type">>, required |-> 1]

\* self.random_gp.log_prob(param_sample, data_tuples_tiled)
Call_log_prob_site == [npos |-> 2, kw |-> {}]

\* RandomGPPosterior(param_shapes_dict, cov_type=cov_type)
Call_posterior_site == [npos |-> 1, kw |-> {"cov_type"}]

\* the classes the names RandomGPMeta and RandomGPPosterior are bound to:
\* those of meta_learn.random_gp, or the ones src/random_gp.py defines
Classes == {"meta_learn", "src"}

Sig_log_prob(cls) ==
    IF cls = "src" THEN Sig_RandomGP_log_prob ELSE Sig_RandomGPMeta_log_prob

Sig_posterior(cls) ==
    IF cls = "src" THEN Sig_RandomGPPosterior ELSE Sig_RandomGPPosterior_meta

\* a gpytorch.means.Mean and a gpytorch.kernels.Kernel object passed where a
\* family string is expected; an object is equal to no string
MeanObject == "gpytorch.means.Mean()"

KernelObject == "gpytorch.kernels.Kernel()"

\* isinstance(x, gpytorch.means.Mean), isinstance(x, gpytorch.kernels.Kernel)
IsMean(x) == x = MeanObject

IsKernel(x) == x = KernelObject

\* the three assertions that open __init__
InitArgsErr(a) ==
    IF ~(a.mean_module \in {"NN", "constant", "zero"} \/ IsMean(a.mean_module))
    THEN "AssertionError"
    ELSE IF ~(a.covar_module \in {"NN", "SE"} \/ IsKernel(a.covar_module))
    THEN "AssertionError"
    ELSE IF a.optimizer \notin {"Adam", "SGD"} THEN "AssertionError"
    ELSE NoErr

\* the batch size taken as requested, without the cap at the number of tasks
TaskBatchSize_requested(task_batch_size, n_tasks) ==
    IF task_batch_size < 1 THEN n_tasks ELSE task_batch_size

\* self.task_batch_size
TaskBatchSize(task_batch_size, n_tasks) ==
    IF task_batch_size < 1 THEN n_tasks ELSE Min(task_batch_size, n_tasks)

\* _setup_model_inference with the mean check of __init__, which admits "zero"
SetupModelErr_as_init(mean_module_str, covar_module_str) ==
    IF mean_module_str \notin {"NN", "constant", "zero"} THEN "AssertionError"
    ELSE IF covar_module_str \notin {"NN", "SE"} THEN "AssertionError"
    ELSE NoErr

\* the two assertions that open _setup_model_inference
SetupModelErr(mean_module_str, covar_module_str) ==
    IF mean_module_str \notin {"NN", "constant"} THEN "AssertionError"
    ELSE IF covar_module_str \notin {"NN", "SE"} THEN "AssertionError"
    ELSE NoErr

\* _setup_optimizer: the optimizer over posterior.parameters()
SetupOptimizer(kind) ==
    IF kind \in {"Adam", "SGD"}
    THEN [err |-> NoErr, kind |-> kind, steps |-> 0, grads |-> "none", lr |-> 0]
    ELSE [err |-> "NotImplementedError", kind |-> kind, steps |-> 0, grads |-> "none",
          lr |-> 0]

\* the step_size the StepLR scheduler is created with
StepSize == 1000

\* _setup_optimizer: StepLR when lr_decay < 1.0, else the dummy scheduler;
\* lr_decay is given in hundredths, steps is the scheduler's last_epoch, and
\* the optimizer's lr is kept as the number of times the learning rate was
\* multiplied by gamma
SetupScheduler(lr_decay) ==
    IF lr_decay < 100
    THEN [err |-> NoErr, kind |-> "StepLR", steps |-> 0, step_size |-> StepSize,
          gamma |-> lr_decay]
    ELSE [err |-> NoErr, kind |-> "DummyLRScheduler", steps |-> 0, step_size |-> 0,
          gamma |-> 0]

\* a scheduler that multiplies the learning rate by gamma at every step
ExponentialLR_get_lr(sched, last_epoch, lr) ==
    IF sched.kind = "StepLR" THEN lr + 1 ELSE lr

\* the learning rate a scheduler sets at step(), where last_epoch is already
\* counted up: StepLR multiplies it by gamma when last_epoch is a multiple of
\* step_size, the dummy scheduler leaves it
StepLR_get_lr(sched, last_epoch, lr) ==
    IF sched.kind # "StepLR" THEN lr
    ELSE IF last_epoch = 0 \/ last_epoch % sched.step_size # 0 THEN lr
    ELSE lr + 1

\* the loop that caches the prepared tensors of every task
TaskDicts(n_tasks) == [i \in 1..n_tasks |-> [train_x |-> i, train_y |-> i]]

\* _compute_normalization_stats over the pooled tasks
NormStats(n_tasks) == [err |-> NoErr, over |-> n_tasks]

\* the arguments of __init__ the model draws
InitArgs ==
    [n_tasks : 1..MaxTasks, input_dim : {1}, num_iter_fit : 0..MaxIter,
     task_batch_size : (-1)..(MaxTasks + 1), svi_batch_size : 1..MaxSvi,
     mean_module : {"NN", "constant", "zero", "linear", MeanObject},
     covar_module : {"NN", "SE", "RBF", KernelObject},
     optimizer : {"Adam", "SGD", "LBFGS"}, lr_decay : {90, 100},
     random_gp_cls : Classes, posterior_cls : Classes]

\* what __init__ raises, in the order of its statements, or NoErr
InitErr(a, rgp, post) ==
    IF InitArgsErr(a) # NoErr THEN InitArgsErr(a)
    ELSE IF SetupModelErr(a.mean_module, a.covar_module) # NoErr
    THEN SetupModelErr(a.mean_module, a.covar_module)
    ELSE IF rgp.err # NoErr THEN rgp.err
    ELSE IF BindErr(Sig_posterior(a.posterior_cls), Call_posterior_site) # NoErr
    THEN BindErr(Sig_posterior(a.posterior_cls), Call_posterior_site)
    ELSE IF post.err # NoErr THEN post.err
    ELSE SetupOptimizer(a.optimizer).err

\* the method in which __init__ raises
InitErrAt(a) ==
    IF InitArgsErr(a) # NoErr THEN "__init__"
    ELSE IF SetupModelErr(a.mean_module, a.covar_module) # NoErr
    THEN "_setup_model_inference"
    ELSE "later"

\* the keyword arguments _setup_model_inference passes to the random GP
ModelKwargs(a) ==
    [feature_dim |-> FeatureDim, covar_module_str |-> a.covar_module,
     mean_module_str |-> a.mean_module, mean_nn_layers |-> <<>>,
     kernel_nn_layers |-> <<>>]

\* the state of a learner whose __init__ returned
Constructed(a, rgp, post) ==
    /\ learner' = "ready"
    /\ cfg' = [err |-> NoErr, num_iter_fit |-> a.num_iter_fit, prior_factor |-> "0.01",
               svi_batch_size |-> a.svi_batch_size,
               task_batch_size |-> TaskBatchSize(a.task_batch_size, a.n_tasks),
               random_gp_cls |-> a.random_gp_cls, posterior_cls |-> a.posterior_cls]
    /\ task_dicts' = TaskDicts(a.n_tasks)
    /\ norm_stats' = NormStats(a.n_tasks)
    /\ random_gp' = [err |-> NoErr, _param_dists |-> rgp._param_dists,
                     prior_factor |-> rgp.prior_factor]
    /\ gp_heap' = <<rgp.gp>>
    /\ posterior' = post
    /\ optimizer' = SetupOptimizer(a.optimizer)
    /\ lr_scheduler' = SetupScheduler(a.lr_decay)
    /\ ret' = [op |-> "__init__", kind |-> "returned", val |-> 0, err |-> NoErr,
               at |-> "none", args |-> a,
               n_tasks |-> a.n_tasks, task_batch_size |-> a.task_batch_size]

\* a learner whose __init__ raised: no object is left
NotConstructed(a, err) ==
    /\ learner' = "failed"
    /\ ret' = [op |-> "__init__", kind |-> "raised", val |-> 0, err |-> err,
               at |-> InitErrAt(a), args |-> a]
    /\ UNCHANGED <<cfg, task_dicts, norm_stats, random_gp, gp_heap, posterior,
                   optimizer, lr_scheduler>>

Construct_from(a, rgp, post) ==
    IF InitErr(a, rgp, post) = NoErr
    THEN Constructed(a, rgp, post)
    ELSE NotConstructed(a, InitErr(a, rgp, post))

Construct_prior(a, rgp) ==
    Construct_from(a, rgp, RandomGPPosterior(parameter_shapes(rgp._param_dists)))

\* GPRegressionMetaLearnedVI.__init__
Construct(a) ==
    /\ learner = "none"
    /\ Construct_prior(a, RandomGP(a.input_dim, "0.01", "0.5", "3.0", ModelKwargs(a)))
    /\ fitted' = FALSE
    /\ UNCHANGED <<rds_numpy, frame, instances, last_call, n_declares>>
    /\ UNCHANGED search_vars

(* ------------------------------------------------------------------ *)
(* GPRegressionMetaLearnedVI: meta_fit and predict                      *)
(* ------------------------------------------------------------------ *)
client_vars == <<instances, last_call, n_declares>>

\* what the constructor fixes: the object, its stored arguments, the cached
\* task tensors, the normalization statistics and the prior
fixed_vars == <<learner, cfg, task_dicts, norm_stats, random_gp>>

\* the length of a sample of CatDist(dists): the event sizes added up
RECURSIVE CatSize(_)
CatSize(dists) ==
    IF Len(dists) = 0 THEN 0 ELSE dists[1].event_shape[1] + CatSize(Tail(dists))

\* posterior.rsample / posterior.sample: one flat vector per sample; tag
\* stands for the values drawn
PosteriorSample(post, tag) == [i \in 1..CatSize(forward(post).dists) |-> tag]

\* the heap after a call that materialized an instance and dropped it
Dropped(heap, r) == SubSeq(r.heap, 1, Len(heap))

\* _tile_data_tuples(tasks_dicts, tile_size)
_tile_data_tuples(tasks_dicts, tile_size) ==
    [i \in 1..Len(tasks_dicts) |->
        [x_data |-> tasks_dicts[i].train_x, y_data |-> tasks_dicts[i].train_y,
         copies |-> tile_size]]

\* the elbo tensor of get_neg_elbo: entry i is the log joint of sample i over
\* the tiled tasks minus prior_factor times the posterior log-density of the
\* sample
Elbo(data_tuples_tiled, n_samples, prior_factor) ==
    [i \in 1..n_samples |->
        [log_prob_of |-> i, data |-> data_tuples_tiled,
         prior_factor |-> prior_factor, posterior_log_prob_of |-> i]]

\* meta_fit(n_iter=...) is called; given is FALSE when n_iter is left None,
\* and max_steps bounds the iterations one learner is driven through
meta_fit_call(given, n_iter, max_steps) ==
    /\ learner = "ready"
    /\ frame.pc = "idle"
    /\ rds_numpy + (IF given THEN n_iter ELSE cfg.num_iter_fit) <= max_steps
    /\ frame' = [pc |-> "loop", n_iter_given |-> given,
                 n_iter |-> IF given THEN n_iter ELSE cfg.num_iter_fit,
                 itr |-> 0, task_dict_batch |-> <<>>, elbo |-> <<>>, loss |-> Unbound,
                 optimizer_steps_at_call |-> optimizer.steps,
                 lr_scheduler_steps_at_call |-> lr_scheduler.steps]
    /\ ret' = [op |-> "meta_fit", kind |-> "running", val |-> 0, err |-> NoErr]
    /\ UNCHANGED <<gp_heap, posterior, optimizer, lr_scheduler, fitted, rds_numpy>>
    /\ UNCHANGED fixed_vars
    /\ UNCHANGED client_vars
    /\ UNCHANGED search_vars

meta_fit(given, n_iter) == meta_fit_call(given, n_iter, MaxSteps)

\* for itr in range(1, n_iter + 1): task_dict_batch = self.rds_numpy.choice(...)
meta_fit_sample(choice) ==
    /\ frame.pc = "loop"
    /\ frame.itr < frame.n_iter
    /\ frame' = [frame EXCEPT !.pc = "zero_grad", !.itr = @ + 1,
                              !.task_dict_batch =
                                  [i \in 1..cfg.task_batch_size |-> task_dicts[choice[i]]]]
    /\ rds_numpy' = rds_numpy + 1
    /\ UNCHANGED <<gp_heap, posterior, optimizer, lr_scheduler, fitted, ret>>
    /\ UNCHANGED fixed_vars
    /\ UNCHANGED client_vars
    /\ UNCHANGED search_vars

\* self.optimizer.zero_grad()
meta_fit_zero_grad ==
    /\ frame.pc = "zero_grad"
    /\ optimizer' = [optimizer EXCEPT !.grads = "zero"]
    /\ frame' = [frame EXCEPT !.pc = "get_neg_elbo"]
    /\ UNCHANGED <<gp_heap, posterior, lr_scheduler, fitted, rds_numpy, ret>>
    /\ UNCHANGED fixed_vars
    /\ UNCHANGED client_vars
    /\ UNCHANGED search_vars

\* an exception handler that marks the learner fitted before it re-raises
meta_fit_raise_fitted(err) ==
    /\ frame' = NoFrame
    /\ ret' = Raised("meta_fit", err)
    /\ fitted' = TRUE
    /\ UNCHANGED <<gp_heap, posterior, optimizer, lr_scheduler, rds_numpy>>

\* a call that raises ends meta_fit: the exception propagates to the caller
meta_fit_raise(err) ==
    /\ frame' = NoFrame
    /\ ret' = Raised("meta_fit", err)
    /\ UNCHANGED <<gp_heap, posterior, optimizer, lr_scheduler, fitted, rds_numpy>>

\* get_neg_elbo once its call of random_gp.log_prob is bound
get_neg_elbo_bound(loss) ==
    /\ frame' = [frame EXCEPT
                    !.pc = "backward",
                    !.elbo = Elbo(_tile_data_tuples(frame.task_dict_batch,
                                                    cfg.svi_batch_size),
                                  cfg.svi_batch_size, cfg.prior_factor),
                    !.loss = [bound |-> TRUE, val |-> loss]]
    /\ gp_heap' = Dropped(gp_heap,
                          get_forward_fn(gp_heap, PosteriorSample(posterior, 8)))
    /\ UNCHANGED <<posterior, optimizer, lr_scheduler, fitted, rds_numpy, ret>>

\* loss = self.get_neg_elbo(task_dict_batch); loss is the value it computes
meta_fit_get_neg_elbo(loss) ==
    /\ frame.pc = "get_neg_elbo"
    /\ IF BindErr(Sig_log_prob(cfg.random_gp_cls), Call_log_prob_site) # NoErr
       THEN meta_fit_raise(BindErr(Sig_log_prob(cfg.random_gp_cls), Call_log_prob_site))
       ELSE get_neg_elbo_bound(loss)
    /\ UNCHANGED fixed_vars
    /\ UNCHANGED client_vars
    /\ UNCHANGED search_vars

\* the covariance of a sampled GP is not positive definite: the likelihood
\* evaluation inside get_neg_elbo raises
meta_fit_get_neg_elbo_raises ==
    /\ frame.pc = "get_neg_elbo"
    /\ BindErr(Sig_log_prob(cfg.random_gp_cls), Call_log_prob_site) = NoErr
    /\ meta_fit_raise("RuntimeError")
    /\ UNCHANGED fixed_vars
    /\ UNCHANGED client_vars
    /\ UNCHANGED search_vars

\* loss.backward()
meta_fit_backward ==
    /\ frame.pc = "backward"
    /\ optimizer' = [optimizer EXCEPT !.grads = "set"]
    /\ frame' = [frame EXCEPT !.pc = "optimizer_step"]
    /\ UNCHANGED <<gp_heap, posterior, lr_scheduler, fitted, rds_numpy, ret>>
    /\ UNCHANGED fixed_vars
    /\ UNCHANGED client_vars
    /\ UNCHANGED search_vars

\* the posterior's tensors after one update from their gradients
Updated(params) == [i \in 1..Len(params) |-> [params[i] EXCEPT !.val = @ + 1]]

\* self.optimizer.step()
meta_fit_optimizer_step ==
    /\ frame.pc = "optimizer_step"
    /\ optimizer' = [optimizer EXCEPT !.steps = @ + 1]
    /\ posterior' = [posterior EXCEPT !.params = Updated(@)]
    /\ frame' = [frame EXCEPT !.pc = "lr_scheduler_step"]
    /\ UNCHANGED <<gp_heap, lr_scheduler, fitted, rds_numpy, ret>>
    /\ UNCHANGED fixed_vars
    /\ UNCHANGED client_vars
    /\ UNCHANGED search_vars

\* an iteration that ends without stepping the scheduler
meta_fit_lr_scheduler_skip ==
    /\ frame.pc = "lr_scheduler_step"
    /\ frame' = [frame EXCEPT !.pc = "loop", !.task_dict_batch = <<>>, !.elbo = <<>>]
    /\ UNCHANGED <<gp_heap, posterior, optimizer, lr_scheduler, fitted, rds_numpy, ret>>
    /\ UNCHANGED fixed_vars
    /\ UNCHANGED client_vars
    /\ UNCHANGED search_vars

\* self.lr_scheduler.step(); the logging that follows changes nothing and the
\* batch is not read again
meta_fit_lr_scheduler_step ==
    /\ frame.pc = "lr_scheduler_step"
    /\ lr_scheduler' = [lr_scheduler EXCEPT !.steps = @ + 1]
    /\ optimizer' = [optimizer EXCEPT
                        !.lr = StepLR_get_lr(lr_scheduler, lr_scheduler.steps + 1, @)]
    /\ frame' = [frame EXCEPT !.pc = "loop", !.task_dict_batch = <<>>, !.elbo = <<>>]
    /\ UNCHANGED <<gp_heap, posterior, fitted, rds_numpy, ret>>
    /\ UNCHANGED fixed_vars
    /\ UNCHANGED client_vars
    /\ UNCHANGED search_vars

\* return loss.item(): reading a local that was never assigned raises
meta_fit_return(loss) ==
    IF loss.bound THEN Returned("meta_fit", loss.val)
    ELSE Raised("meta_fit", "UnboundLocalError")

\* the loop is exhausted: self.fitted = True; return loss.item()
meta_fit_end ==
    /\ frame.pc = "loop"
    /\ frame.itr >= frame.n_iter
    /\ fitted' = TRUE
    /\ ret' = meta_fit_return(frame.loss)
    /\ frame' = NoFrame
    /\ UNCHANGED <<gp_heap, posterior, optimizer, lr_scheduler, rds_numpy>>
    /\ UNCHANGED fixed_vars
    /\ UNCHANGED client_vars
    /\ UNCHANGED search_vars

\* self.posterior.mode as get_pred_dist_map reads it: RandomGPPosterior
\* defines mode with def and no property decorator, so the expression is the
\* bound method and not the vector the method would return
PosteriorMode == "bound method"

\* param.view(...): a bound method has no attribute view
ViewErr(param) == IF param = "bound method" THEN "AttributeError" ELSE NoErr

\* what predict raises, or NoErr
PredictErr(mode, r) ==
    IF mode \notin {"bayes", "Bayes", "MAP", "map"} THEN "AssertionError"
    ELSE IF mode \in {"MAP", "map"} /\ ViewErr(PosteriorMode) # NoErr
    THEN ViewErr(PosteriorMode)
    ELSE r.err

predict_from(mode, n_posterior_samples, r) ==
    /\ gp_heap' = IF mode \in {"bayes", "Bayes", "MAP", "map"}
                  THEN Dropped(gp_heap, r) ELSE gp_heap
    /\ ret' = IF PredictErr(mode, r) # NoErr
              THEN [op |-> "predict", kind |-> "raised", val |-> 0,
                    err |-> PredictErr(mode, r), mode |-> mode,
                    n_posterior_samples |-> n_posterior_samples,
                    n_samples |-> 0, n_components |-> 0]
              ELSE [op |-> "predict", kind |-> "returned", val |-> 0, err |-> NoErr,
                    mode |-> mode, n_posterior_samples |-> n_posterior_samples,
                    n_samples |-> IF mode \in {"MAP", "map"} THEN 0
                                  ELSE n_posterior_samples,
                    n_components |-> IF mode \in {"MAP", "map"} THEN 1
                                     ELSE n_posterior_samples]

\* predict(context_x, context_y, test_x, n_posterior_samples, mode)
predict(mode, n_posterior_samples) ==
    /\ learner = "ready"
    /\ frame.pc = "idle"
    /\ predict_from(mode, n_posterior_samples,
                    get_forward_fn(gp_heap, PosteriorSample(posterior, 9)))
    /\ UNCHANGED <<posterior, optimizer, lr_scheduler, fitted, rds_numpy, frame>>
    /\ UNCHANGED fixed_vars
    /\ UNCHANGED client_vars
    /\ UNCHANGED search_vars

\* d[key] on a task dict: a key that was never stored is a KeyError
HasItem(d, key) == key \in DOMAIN d

\* the loop of state_dict: every task's model must hold the values of the
\* first task's model
ModelsAgree(tds) == \A i \in 1..Len(tds) : tds[i].model = tds[1].model

\* how state_dict ends: the dict literal reads the optimizer, then
\* task_dicts[0]["model"]; the loop then compares every task's model with it
state_dict_result(opt, tds) ==
    IF ~HasItem(tds[1], "model") THEN Raised("state_dict", "KeyError")
    ELSE IF ~ModelsAgree(tds) THEN Raised("state_dict", "AssertionError")
    ELSE [op |-> "state_dict", kind |-> "returned", val |-> 0, err |-> NoErr,
          state_dict |-> [optimizer |-> opt, model |-> tds[1].model]]

\* GPRegressionMetaLearnedVI.state_dict()
state_dict ==
    /\ learner = "ready"
    /\ frame.pc = "idle"
    /\ ret' = state_dict_result(optimizer, task_dicts)
    /\ UNCHANGED <<gp_heap, posterior, optimizer, lr_scheduler, fitted, rds_numpy, frame>>
    /\ UNCHANGED fixed_vars
    /\ UNCHANGED client_vars
    /\ UNCHANGED search_vars

\* checkpoints a caller passes to load_state_dict: an optimizer state and the
\* values of one model
Checkpoints ==
    {[optimizer |-> [SetupOptimizer("Adam") EXCEPT !.steps = k], model |-> k] :
        k \in 0..1}

\* the loop of load_state_dict over the tasks, which stops at the first task
\* dict without a model, and the optimizer load that follows the loop
load_state_dict_tasks(tds, sd) ==
    IF \E i \in 1..Len(tds) : ~HasItem(tds[i], "model")
    THEN [err |-> "KeyError",
          tds |-> [i \in 1..Len(tds) |->
                      IF \A j \in 1..i : HasItem(tds[j], "model")
                      THEN [tds[i] EXCEPT !.model = sd.model] ELSE tds[i]]]
    ELSE [err |-> NoErr, tds |-> [i \in 1..Len(tds) |-> [tds[i] EXCEPT !.model = sd.model]]]

load_state_dict_from(r, sd) ==
    /\ task_dicts' = r.tds
    /\ optimizer' = IF r.err = NoErr THEN sd.optimizer ELSE optimizer
    /\ ret' = IF r.err = NoErr
              THEN [op |-> "load_state_dict", kind |-> "returned", val |-> 0,
                    err |-> NoErr, state_dict |-> sd]
              ELSE [op |-> "load_state_dict", kind |-> "raised", val |-> 0,
                    err |-> r.err, state_dict |-> sd]

\* GPRegressionMetaLearnedVI.load_state_dict(state_dict)
load_state_dict(sd) ==
    /\ learner = "ready"
    /\ frame.pc = "idle"
    /\ load_state_dict_from(load_state_dict_tasks(task_dicts, sd), sd)
    /\ UNCHANGED <<gp_heap, posterior, lr_scheduler, fitted, rds_numpy, frame>>
    /\ UNCHANGED <<learner, cfg, norm_stats, random_gp>>
    /\ UNCHANGED client_vars
    /\ UNCHANGED search_vars

\* what rds_numpy.choice(task_dicts, size=task_batch_size) can return: every
\* entry is drawn from all the tasks, independently of the others
Choices ==
    IF learner = "ready"
    THEN [1..cfg.task_batch_size -> 1..Len(task_dicts)]
    ELSE {}

\* the constructions whose learner is driven further: the setup is fixed to
\* a neural-network mean, an SE kernel, Adam and a decaying learning rate
FitArgs ==
    {a \in InitArgs : /\ a.mean_module = "NN" /\ a.covar_module = "SE"
                      /\ a.optimizer = "Adam" /\ a.lr_decay < 100
                      /\ a.svi_batch_size = MaxSvi}

\* the constructor runs once, on an object that does not exist yet
ConstructArgs == IF learner = "none" THEN FitArgs ELSE {}

Modes == {"Bayes", "bayes", "MAP", "map", "mean"}

Next ==
    \/ \E a \in ConstructArgs : Construct(a)
    \/ \E n_iter \in 0..MaxIter : meta_fit(TRUE, n_iter)
    \/ meta_fit(FALSE, 0)
    \/ \E choice \in Choices : meta_fit_sample(choice)
    \/ meta_fit_zero_grad
    \/ \E loss \in 0..MaxLoss : meta_fit_get_neg_elbo(loss)
    \/ meta_fit_get_neg_elbo_raises
    \/ meta_fit_backward
    \/ meta_fit_optimizer_step
    \/ meta_fit_lr_scheduler_step
    \/ meta_fit_end
    \/ \E mode \in Modes, n \in 1..MaxSvi : predict(mode, n)
    \/ state_dict
    \/ \E sd \in Checkpoints : load_state_dict(sd)

\* every construction the model draws, valid or not
AllArgs == IF learner = "none" THEN InitArgs ELSE {}

NextInit == \E a \in AllArgs : Construct(a)

SpecInit == Init /\ [][NextInit]_vars

\* a learner is constructed and then driven by meta_fit and predict calls
Spec == Init /\ [][Next]_vars

\* the constructions of the long runs: one task, with and without decay
LRArgs ==
    IF learner # "none" THEN {}
    ELSE {a \in FitArgs \cup {[b EXCEPT !.lr_decay = 100] : b \in FitArgs} :
             /\ a.n_tasks = 1 /\ a.task_batch_size = -1 /\ a.num_iter_fit = 0
             /\ a.random_gp_cls = "meta_learn" /\ a.posterior_cls = "meta_learn"}

NextLR ==
    \/ \E a \in LRArgs : Construct(a)
    \/ \E n_iter \in {StepSize - 1, StepSize + 1} :
           meta_fit_call(TRUE, n_iter, MaxDecays * StepSize + 1)
    \/ \E choice \in Choices : meta_fit_sample(choice)
    \/ meta_fit_zero_grad
    \/ meta_fit_get_neg_elbo(0)
    \/ meta_fit_backward
    \/ meta_fit_optimizer_step
    \/ meta_fit_lr_scheduler_step
    \/ meta_fit_end

\* a learner is constructed and trained by meta_fit calls whose lengths lie
\* around the scheduler's step_size
SpecLR == Init /\ [][NextLR]_vars

(* ------------------------------------------------------------------ *)
(* meta_vi_hyperparam.main: the final test trials                       *)
(* ------------------------------------------------------------------ *)
SEED == 28

\* the first two of TEST_SEEDS = [28, 29, 30, 31, 32]
TEST_SEEDS == <<28, 29>>

\* d.update(u) on a dict kept as a record: the keys of u are added or replaced
Update(d, u) ==
    [k \in DOMAIN d \cup DOMAIN u |-> IF k \in DOMAIN u THEN u[k] ELSE d[k]]

\* np.nan, and a metric computed by eval_datasets for one configuration
NaN == [nan |-> TRUE]

Metric(config) == [nan |-> FALSE, id |-> config.id, random_seed |-> config.random_seed]

\* select_best_configs returns n configurations, each a dict of its own
main_select_best_configs(n) ==
    /\ main_pc = "select_best_configs"
    /\ configs' = [heap |-> [i \in 1..n |-> [id |-> i, random_seed |-> SEED]],
                   best_configs |-> [i \in 1..n |-> i]]
    /\ main_pc' = "test_configs"
    /\ UNCHANGED <<test_configs, tasks, result_dicts, trial>>
    /\ UNCHANGED <<gp_vars, learner_vars>>

\* test_config = config: the list entry is the best configuration itself
copy_config_alias(heap, ref) == [heap |-> heap, ref |-> ref]

\* test_config = copy.deepcopy(config): a new dict with the same items
copy_config(heap, ref) == [heap |-> Append(heap, heap[ref]), ref |-> Len(heap) + 1]

\* test_config.update({"random_seed": seed}); test_configs.append(test_config)
TestConfig(st, c, seed) ==
    [heap |-> [c.heap EXCEPT ![c.ref] = Update(@, [random_seed |-> seed])],
     list |-> Append(st.list, c.ref)]

RECURSIVE ForSeeds(_, _, _)
ForSeeds(st, config, j) ==
    IF j > Len(TEST_SEEDS) THEN st
    ELSE ForSeeds(TestConfig(st, copy_config(st.heap, config), TEST_SEEDS[j]),
                  config, j + 1)

RECURSIVE ForConfigs(_, _, _)
ForConfigs(st, best_configs, i) ==
    IF i > Len(best_configs) THEN st
    ELSE ForConfigs(ForSeeds(st, best_configs[i], 1), best_configs, i + 1)

main_test_configs_from(st) ==
    /\ configs' = [configs EXCEPT !.heap = st.heap]
    /\ test_configs' = st.list

\* the two nested loops that build test_configs
main_test_configs ==
    /\ main_pc = "test_configs"
    /\ main_test_configs_from(
           ForConfigs([heap |-> configs.heap, list |-> <<>>], configs.best_configs, 1))
    /\ main_pc' = "remote"
    /\ UNCHANGED <<tasks, result_dicts, trial>>
    /\ UNCHANGED <<gp_vars, learner_vars>>

\* [train_test.remote(config) for config in test_configs]: every task gets
\* the serialized value its configuration has when it is submitted
main_remote ==
    /\ main_pc = "remote"
    /\ tasks' = [k \in 1..Len(test_configs) |->
                    [pc |-> "pending", config |-> configs.heap[test_configs[k]],
                     raised |-> FALSE]]
    /\ main_pc' = "ray.get"
    /\ UNCHANGED <<configs, test_configs, result_dicts, trial>>
    /\ UNCHANGED <<gp_vars, learner_vars>>

\* the except branch that records only the log-likelihood as NaN
train_test_except_ll(results_dict) == Update(results_dict, [ll |-> NaN])

\* except Exception: results_dict.update(ll=np.nan, rmse=np.nan, calib_err=np.nan)
train_test_except(results_dict) ==
    Update(results_dict, [ll |-> NaN, rmse |-> NaN, calib_err |-> NaN])

\* the try body ran to its end: results_dict.update(ll=ll, rmse=rmse, ...)
train_test_else(results_dict) ==
    Update(results_dict, [ll |-> Metric(results_dict), rmse |-> Metric(results_dict),
                          calib_err |-> Metric(results_dict)])

\* the stages of the try body; each one may raise
Stages == {"provide_data", "GPRegressionMetaLearnedVI", "meta_fit", "eval_datasets"}

\* train_test on worker k: results_dict = config, then the try statement, in
\* which stage raised_at raises ("none": no stage does)
train_test_try(k, raised_at) ==
    /\ main_pc = "ray.get"
    /\ tasks[k].pc = "pending"
    /\ tasks' = [tasks EXCEPT ![k] =
                    [pc |-> "return",
                     config |-> IF raised_at = "none" THEN train_test_else(@.config)
                                ELSE train_test_except(@.config),
                     raised |-> raised_at # "none"]]
    /\ UNCHANGED <<configs, test_configs, result_dicts, main_pc, trial>>
    /\ UNCHANGED <<gp_vars, learner_vars>>

\* return results_dict: the result of task k is in the object store
train_test_return(k) ==
    /\ main_pc = "ray.get"
    /\ tasks[k].pc = "return"
    /\ tasks' = [tasks EXCEPT ![k].pc = "done"]
    /\ UNCHANGED <<configs, test_configs, result_dicts, main_pc, trial>>
    /\ UNCHANGED <<gp_vars, learner_vars>>

\* result_dicts = ray.get([...]): returns when every task is done, with the
\* results in the order of the list
main_ray_get ==
    /\ main_pc = "ray.get"
    /\ \A k \in 1..Len(tasks) : tasks[k].pc = "done"
    /\ result_dicts' = [k \in 1..Len(tasks) |-> tasks[k].config]
    /\ main_pc' = "done"
    /\ UNCHANGED <<configs, test_configs, tasks, trial>>
    /\ UNCHANGED <<gp_vars, learner_vars>>

NextTest ==
    \/ \E n \in 1..MaxBest : main_select_best_configs(n)
    \/ main_test_configs
    \/ main_remote
    \/ \E k \in 1..Len(tasks), raised_at \in Stages \cup {"none"} : train_test_try(k, raised_at)
    \/ \E k \in 1..Len(tasks) : train_test_return(k)
    \/ main_ray_get

\* main after the search: the test configurations are built, run on the
\* workers in any interleaving, and collected
SpecTest == Init /\ [][NextTest]_vars

(* ------------------------------------------------------------------ *)
(* meta_vi_hyperparam.main: a search trial                              *)
(* ------------------------------------------------------------------ *)
\* GPRegressionMetaLearnedVI.__init__(self, meta_train_data, num_iter_fit=..., ...)
Sig_GPRegressionMetaLearnedVI ==
    [names |-> <<"meta_train_data", "num_iter_fit", "feature_dim", "prior_factor",
                 "weight_prior_std", "bias_prior_std", "covar_module", "mean_module",
                 "mean_nn_layers", "kernel_nn_layers", "optimizer", "lr", "lr_decay",
                 "svi_batch_size", "cov_type", "task_batch_size", "normalize_data",
                 "random_seed">>,
     required |-> 1]

\* the keys of config["config"] and the keys of the search space
FixedKeys ==
    {"num_iter_fit", "kernel_nn_layers", "mean_nn_layers", "random_seed", "mean_module",
     "covar_module", "normalize_data", "cov_type"}

SpaceKeys ==
    {"task_kl_weight", "prior_factor", "lr", "lr_decay", "svi_batch_size",
     "task_batch_size"}

\* the configurations a trial is run with: those of the search, and the same
\* without task_kl_weight; num_iter_fit lies around the multiples of the
\* evaluation period
EvalPeriod == 3000

TrialConfigs ==
    [num_iter_fit : {EvalPeriod - 1, EvalPeriod + 1, MaxRounds * EvalPeriod},
     keys : {FixedKeys \cup SpaceKeys, FixedKeys \cup (SpaceKeys \ {"task_kl_weight"})}]

\* GPRegressionMetaLearnedVI(data_train, **config)
Call_train_reg_site(config) == [npos |-> 1, kw |-> config.keys]

\* the constructor arguments a bound configuration amounts to; the batch
\* sizes are drawn small
TrialArgs(config) ==
    [n_tasks |-> 1, input_dim |-> 1, num_iter_fit |-> config.num_iter_fit,
     task_batch_size |-> 1, svi_batch_size |-> 1, mean_module |-> "NN",
     covar_module |-> "SE", optimizer |-> "Adam", lr_decay |-> 90,
     random_gp_cls |-> "meta_learn", posterior_cls |-> "meta_learn"]

\* train_reg(config, reporter) up to the construction of the model
train_reg(config) ==
    /\ trial = NoTrial
    /\ learner = "none"
    /\ trial' = [pc |-> "running", config |-> config, train_iter |-> 0, i |-> 0,
                 reports |-> <<>>, err |-> NoErr]
    /\ UNCHANGED <<configs, test_configs, tasks, result_dicts, main_pc>>
    /\ UNCHANGED <<gp_vars, learner_vars>>

\* model = GPRegressionMetaLearnedVI(data_train, **config) cannot be bound:
\* the exception ends the trial
train_reg_model_raises ==
    /\ trial.pc = "running"
    /\ learner = "none"
    /\ BindErr(Sig_GPRegressionMetaLearnedVI, Call_train_reg_site(trial.config)) # NoErr
    /\ trial' = [trial EXCEPT
                    !.pc = "raised",
                    !.err = BindErr(Sig_GPRegressionMetaLearnedVI,
                                    Call_train_reg_site(trial.config))]
    /\ UNCHANGED <<configs, test_configs, tasks, result_dicts, main_pc>>
    /\ UNCHANGED <<gp_vars, learner_vars>>

\* model = GPRegressionMetaLearnedVI(data_train, **config)
train_reg_model ==
    /\ trial.pc = "running"
    /\ BindErr(Sig_GPRegressionMetaLearnedVI, Call_train_reg_site(trial.config)) = NoErr
    /\ Construct(TrialArgs(trial.config))

\* for i in range(config["num_iter_fit"] // eval_period):
\*     loss = model.meta_fit(verbose=False, log_period=2000, n_iter=eval_period)
train_reg_meta_fit ==
    /\ trial.pc = "running"
    /\ ret.op \in {"__init__", "eval_datasets"} /\ ret.kind = "returned"
    /\ trial.i < trial.config.num_iter_fit \div EvalPeriod
    /\ meta_fit_call(TRUE, EvalPeriod, MaxRounds * EvalPeriod)

\* train_iter += eval_period; model.eval_datasets(data_valid); reporter(...);
\* optimizer_steps notes the steps the model's optimizer has made by then
train_reg_report ==
    /\ trial.pc = "running"
    /\ ret.op = "meta_fit" /\ ret.kind = "returned"
    /\ trial' = [trial EXCEPT
                    !.train_iter = @ + EvalPeriod,
                    !.i = @ + 1,
                    !.reports = Append(@, [timesteps_total |-> trial.train_iter + EvalPeriod,
                                           loss |-> ret.val,
                                           optimizer_steps |-> optimizer.steps])]
    /\ ret' = Returned("eval_datasets", 0)
    /\ UNCHANGED <<configs, test_configs, tasks, result_dicts, main_pc>>
    /\ UNCHANGED <<learner, cfg, task_dicts, norm_stats, fitted, optimizer, lr_scheduler,
                   rds_numpy, frame>>
    /\ UNCHANGED gp_vars

\* an exception of meta_fit is not caught: it ends the trial
train_reg_raise ==
    /\ trial.pc = "running"
    /\ ret.op = "meta_fit" /\ ret.kind = "raised"
    /\ trial' = [trial EXCEPT !.pc = "raised", !.err = ret.err]
    /\ UNCHANGED <<configs, test_configs, tasks, result_dicts, main_pc>>
    /\ UNCHANGED <<gp_vars, learner_vars>>

\* the range is exhausted: train_reg returns
train_reg_return ==
    /\ trial.pc = "running"
    /\ ret.op \in {"__init__", "eval_datasets"} /\ ret.kind = "returned"
    /\ trial.i >= trial.config.num_iter_fit \div EvalPeriod
    /\ trial' = [trial EXCEPT !.pc = "done"]
    /\ UNCHANGED <<configs, test_configs, tasks, result_dicts, main_pc>>
    /\ UNCHANGED <<gp_vars, learner_vars>>

NextReg ==
    \/ \E config \in TrialConfigs : train_reg(config)
    \/ train_reg_model_raises
    \/ train_reg_model
    \/ train_reg_meta_fit
    \/ \E choice \in Choices : meta_fit_sample(choice)
    \/ meta_fit_zero_grad
    \/ meta_fit_get_neg_elbo(0)
    \/ meta_fit_get_neg_elbo_raises
    \/ meta_fit_backward
    \/ meta_fit_optimizer_step
    \/ meta_fit_lr_scheduler_step
    \/ meta_fit_end
    \/ train_reg_report
    \/ train_reg_raise
    \/ train_reg_return

\* one search trial: the model is constructed from the trial's configuration
\* and trained and evaluated in rounds
SpecReg == Init /\ [][NextReg]_vars

(* ================================================================== *)
(* Properties                                                           *)
(* ================================================================== *)

(* ------------------------------------------------------------------ *)
(* The learner's lifecycle, iterations and frame                        *)
(* ------------------------------------------------------------------ *)
\* the positions of meta_fit inside one iteration of its loop
InIteration(pc) ==
    pc \in {"zero_grad", "get_neg_elbo", "backward", "optimizer_step", "lr_scheduler_step"}

\* a step in which meta_fit leaves its exhausted loop and ends
EndsLoop == frame.pc = "loop" /\ frame.itr >= frame.n_iter /\ frame'.pc = "idle"

C1_AfterInit == (ret.op = "__init__" /\ ret.kind = "returned") => ~fitted

C1_Step ==
    /\ fitted => fitted'
    /\ (~fitted /\ fitted') =>
           /\ frame.pc = "loop"
           /\ frame.itr = frame.n_iter
           /\ optimizer.steps = frame.optimizer_steps_at_call + frame.n_iter
    /\ (frame.pc = "loop" /\ EndsLoop) => fitted'

\* C1: fitted is False after construction; it becomes True exactly in the step
\* in which a meta_fit call has run all of its n_iter iterations, and once
\* True it stays True over every later meta_fit and predict call
C1_Lifecycle == []C1_AfterInit /\ [][C1_Step]_vars

\* a fitted learner on which a later meta_fit call ended in an exception
C1_Witness ==
    /\ fitted
    /\ optimizer.steps >= 1
    /\ ret.op = "meta_fit" /\ ret.kind = "raised" /\ ret.err = "RuntimeError"

C2_Counts ==
    frame.pc # "idle" =>
        /\ frame.itr <= frame.n_iter
        /\ ~frame.n_iter_given => frame.n_iter = cfg.num_iter_fit
        /\ optimizer.steps =
               frame.optimizer_steps_at_call + frame.itr
               - (IF InIteration(frame.pc) /\ frame.pc # "lr_scheduler_step" THEN 1 ELSE 0)
        /\ lr_scheduler.steps =
               frame.lr_scheduler_steps_at_call + frame.itr
               - (IF InIteration(frame.pc) THEN 1 ELSE 0)

C2_Order ==
    /\ frame.pc = "idle" /\ frame'.pc # "idle" =>
           /\ frame'.pc = "loop" /\ frame'.itr = 0
           /\ frame'.optimizer_steps_at_call = optimizer.steps
           /\ frame'.lr_scheduler_steps_at_call = lr_scheduler.steps
           /\ UNCHANGED <<optimizer, lr_scheduler>>
    /\ frame.pc = "loop" =>
           \/ /\ frame.itr < frame.n_iter
              /\ frame'.pc = "zero_grad" /\ frame'.itr = frame.itr + 1
              /\ UNCHANGED <<optimizer, lr_scheduler>>
           \/ /\ frame.itr = frame.n_iter
              /\ frame'.pc = "idle"
              /\ optimizer.steps = frame.optimizer_steps_at_call + frame.n_iter
              /\ lr_scheduler.steps = frame.lr_scheduler_steps_at_call + frame.n_iter
              /\ UNCHANGED <<optimizer, lr_scheduler>>
    /\ frame.pc = "zero_grad" =>
           /\ frame'.pc = "get_neg_elbo" /\ optimizer'.grads = "zero"
           /\ optimizer'.steps = optimizer.steps /\ UNCHANGED lr_scheduler
    /\ frame.pc = "get_neg_elbo" =>
           /\ \/ frame'.pc = "backward" /\ frame'.loss.bound
              \/ frame'.pc = "idle" /\ ret'.kind = "raised"
           /\ UNCHANGED <<optimizer, lr_scheduler>>
    /\ frame.pc = "backward" =>
           /\ frame'.pc = "optimizer_step" /\ optimizer'.grads = "set"
           /\ optimizer'.steps = optimizer.steps /\ UNCHANGED lr_scheduler
    /\ frame.pc = "optimizer_step" =>
           /\ frame'.pc = "lr_scheduler_step"
           /\ optimizer'.steps = optimizer.steps + 1 /\ UNCHANGED lr_scheduler
    /\ frame.pc = "lr_scheduler_step" =>
           /\ frame'.pc = "loop"
           /\ lr_scheduler'.steps = lr_scheduler.steps + 1
           /\ optimizer'.steps = optimizer.steps /\ optimizer'.grads = optimizer.grads
    /\ frame.pc = "idle" /\ frame'.pc = "idle" /\ learner = "ready" =>
           UNCHANGED <<optimizer, lr_scheduler>>

\* C2: a meta_fit call runs n_iter iterations (num_iter_fit when n_iter is
\* None), each one in the order sample, zero_grad, negative ELBO, backward,
\* optimizer step, scheduler step; when the call leaves its loop the optimizer
\* and the scheduler have each advanced by n_iter since the call began, and
\* between calls the counts are kept
C2_Iterations == []C2_Counts /\ [][C2_Order]_vars

\* a learner at rest whose step counts exceed what one call can add
C2_Witness ==
    /\ frame.pc = "idle"
    /\ ret.op = "meta_fit" /\ ret.kind = "returned"
    /\ optimizer.steps > MaxIter
    /\ lr_scheduler.steps = optimizer.steps

\* C3: a meta_fit call that leaves its loop returns normally, for every
\* n_iter >= 0, and returns the loss of the last iteration it ran
C3_ReturnsFinalLoss ==
    [][EndsLoop => (ret'.kind = "returned" /\ ret'.val = frame.loss.val)]_vars

C4_Batch ==
    (frame.pc # "idle" /\ InIteration(frame.pc)) =>
        /\ Len(frame.task_dict_batch) = cfg.task_batch_size
        /\ \A i \in 1..Len(frame.task_dict_batch) :
               \E j \in 1..Len(task_dicts) : frame.task_dict_batch[i] = task_dicts[j]

C4_Effective ==
    (ret.op = "__init__" /\ ret.kind = "returned") =>
        /\ Len(task_dicts) = ret.n_tasks
        /\ cfg.task_batch_size =
               IF ret.task_batch_size < 1 THEN ret.n_tasks
               ELSE IF ret.task_batch_size <= ret.n_tasks THEN ret.task_batch_size
               ELSE ret.n_tasks

\* C4: in every iteration the batch has task_batch_size entries, each one a
\* task of the task set; task_batch_size is the number of tasks when the
\* requested value is < 1 and min(requested, number of tasks) otherwise
C4_TaskBatch == C4_Batch /\ C4_Effective

\* a batch in which a task of a larger task set occurs twice
C4_Witness ==
    /\ frame.pc = "zero_grad"
    /\ Len(task_dicts) >= 2
    /\ Len(frame.task_dict_batch) >= 2
    /\ frame.task_dict_batch[1] = frame.task_dict_batch[2]

SchemaOf(post) ==
    [i \in 1..Len(post.params) |->
        [name |-> post.params[i].name, shape |-> post.params[i].shape]]

C6_Fixed ==
    /\ UNCHANGED <<task_dicts, norm_stats, random_gp, gp_heap, cfg>>
    /\ posterior'._param_dist_funcs = posterior._param_dist_funcs
    /\ SchemaOf(posterior') = SchemaOf(posterior)

C6_OnlyMetaFit ==
    frame.pc = "idle" => UNCHANGED <<posterior, optimizer, lr_scheduler, fitted>>

C6_OriginalStep ==
    (learner = "ready" /\ learner' = "ready") =>
        C6_Fixed /\ C6_OnlyMetaFit /\ UNCHANGED rds_numpy

\* C6 as stated: meta_fit and predict change nothing but the posterior's
\* tensors, the optimizer, the scheduler and fitted
C6_OriginalFrame == [][C6_OriginalStep]_vars

C6_Step ==
    (learner = "ready" /\ learner' = "ready") =>
        /\ C6_Fixed
        /\ C6_OnlyMetaFit
        /\ frame.pc = "idle" => UNCHANGED rds_numpy

\* C6: meta_fit and predict change nothing but the posterior's tensors, the
\* optimizer, the scheduler, fitted and the learner's numpy random state; only
\* a running meta_fit changes these, and predict changes none of them
C6_Frame == [][C6_Step]_vars

\* predict returned on a learner that meta_fit has trained
C6_Witness ==
    /\ fitted
    /\ ret.op = "predict" /\ ret.kind = "returned"
    /\ optimizer.steps >= 1 /\ lr_scheduler.steps >= 1 /\ rds_numpy >= 1
    /\ posterior.params[1].val >= 1
\* C12: state_dict() on a constructed learner returns the checkpoint of the
\* optimizer state and one task model's values when all task models agree,
\* and fails by assertion otherwise
C12_Checkpoint ==
    ret.op = "state_dict" =>
        \/ /\ ret.kind = "returned"
           /\ ModelsAgree(task_dicts)
           /\ ret.state_dict = [optimizer |-> optimizer, model |-> task_dicts[1].model]
        \/ /\ ret.kind = "raised" /\ ret.err = "AssertionError"
           /\ ~ModelsAgree(task_dicts)

\* C13: after load_state_dict(s) every task's model holds the values stored
\* in s and the optimizer state is the one stored in s, so that state_dict()
\* called next returns s
C13_RoundTrip ==
    ret.op = "load_state_dict" =>
        /\ ret.kind = "returned"
        /\ optimizer = ret.state_dict.optimizer
        /\ \A i \in 1..Len(task_dicts) : task_dicts[i].model = ret.state_dict.model
        /\ state_dict_result(optimizer, task_dicts).kind = "returned"
        /\ state_dict_result(optimizer, task_dicts).state_dict = ret.state_dict

Submitted(k) == configs.heap[test_configs[k]]

C14_Record(k) ==
    /\ tasks[k].raised =>
           tasks[k].config =
               Update(Submitted(k), [ll |-> NaN, rmse |-> NaN, calib_err |-> NaN])
    /\ ~tasks[k].raised =>
           /\ \A key \in DOMAIN Submitted(k) : tasks[k].config[key] = Submitted(k)[key]
           /\ DOMAIN tasks[k].config = DOMAIN Submitted(k) \cup {"ll", "rmse", "calib_err"}
           /\ \A key \in {"ll", "rmse", "calib_err"} : ~tasks[k].config[key].nan

\* C14: a trial in which a stage raised returns its configuration merged with
\* NaN for ll, rmse and calib_err, a trial in which none raised returns it
\* merged with the three computed metrics, and ray.get returns one record per
\* trial whether or not other trials failed
C14_Records ==
    /\ \A k \in 1..Len(tasks) : tasks[k].pc \in {"return", "done"} => C14_Record(k)
    /\ main_pc = "done" =>
           /\ Len(result_dicts) = Len(test_configs)
           /\ \A k \in 1..Len(tasks) : result_dicts[k] = tasks[k].config

\* the collected results hold a failed trial before a trial that succeeded
C14_Witness ==
    /\ main_pc = "done"
    /\ Len(result_dicts) >= 2
    /\ result_dicts[1].ll.nan /\ result_dicts[1].rmse.nan /\ result_dicts[1].calib_err.nan
    /\ ~result_dicts[2].ll.nan

\* C18: a search trial sends exactly floor(num_iter_fit / 3000) reports, the
\* j-th of them with timesteps_total = 3000 * j, which is the number of
\* optimizer steps the model has made by then, and trains no iteration beyond
\* the last full round
C18_Reports ==
    trial.pc \in {"done", "raised"} =>
        /\ Len(trial.reports) = trial.config.num_iter_fit \div 3000
        /\ \A j \in 1..Len(trial.reports) :
               /\ trial.reports[j].timesteps_total = 3000 * j
               /\ trial.reports[j].optimizer_steps = trial.reports[j].timesteps_total
        /\ learner = "ready" =>
               optimizer.steps = 3000 * (trial.config.num_iter_fit \div 3000)

\* C17: with lr_decay < 1.0 the scheduler is a StepLR and after k scheduler
\* steps in total, over every meta_fit call, the learning rate has been
\* multiplied by lr_decay floor(k / 1000) times; with lr_decay >= 1.0 the
\* scheduler is the dummy one and the learning rate is never changed
C17_LearningRate ==
    learner = "ready" =>
        /\ ret.op = "__init__" =>
               (lr_scheduler.kind = "StepLR") = (ret.args.lr_decay < 100)
        /\ lr_scheduler.kind \in {"StepLR", "DummyLRScheduler"}
        /\ lr_scheduler.kind = "StepLR" =>
               /\ lr_scheduler.gamma < 100
               /\ optimizer.lr = lr_scheduler.steps \div 1000
        /\ lr_scheduler.kind = "DummyLRScheduler" => optimizer.lr = 0

\* a second meta_fit call has taken a decaying learner past its second
\* period: the learning rate was multiplied by lr_decay twice
C17_Witness ==
    /\ learner = "ready"
    /\ frame.pc = "loop"
    /\ lr_scheduler.kind = "StepLR"
    /\ frame.lr_scheduler_steps_at_call >= 999
    /\ lr_scheduler.steps = 2000
    /\ optimizer.lr = 2

\* the best configuration and the test seed of the k-th test configuration
C16_Best(k) == configs.best_configs[((k - 1) \div Len(TEST_SEEDS)) + 1]

C16_Seed(k) == TEST_SEEDS[((k - 1) % Len(TEST_SEEDS)) + 1]

\* every test configuration is a dict of its own, equal to its best
\* configuration but for its seed, and the best configurations are untouched
C16_OwnConfig ==
    main_pc \notin {"select_best_configs", "test_configs"} =>
        /\ Len(test_configs) = Len(configs.best_configs) * Len(TEST_SEEDS)
        /\ \A k \in 1..Len(test_configs) :
               /\ \A j \in 1..Len(test_configs) : j # k => test_configs[j] # test_configs[k]
               /\ \A i \in 1..Len(configs.best_configs) : configs.best_configs[i] # test_configs[k]
               /\ Submitted(k) = Update(configs.heap[C16_Best(k)], [random_seed |-> C16_Seed(k)])
        /\ \A i \in 1..Len(configs.best_configs) :
               configs.heap[configs.best_configs[i]] = [id |-> i, random_seed |-> SEED]

\* the record a trial works on, and the record collected for it, carry the
\* items of the configuration the trial was submitted with
C16_OwnRecord ==
    /\ \A k \in 1..Len(tasks) :
           \A key \in DOMAIN Submitted(k) : tasks[k].config[key] = Submitted(k)[key]
    /\ main_pc = "done" =>
           /\ Len(result_dicts) = Len(test_configs)
           /\ \A k \in 1..Len(result_dicts) :
                  /\ \A key \in DOMAIN Submitted(k) : result_dicts[k][key] = Submitted(k)[key]
                  /\ result_dicts[k].ll \in {NaN, Metric(Submitted(k))}

\* a step of the workers changes the record of one trial only, and neither a
\* returned record nor a submitted configuration changes afterwards
C16_Step ==
    (main_pc = "ray.get" /\ Len(tasks') = Len(tasks)) =>
        /\ \A k, j \in 1..Len(tasks) :
               (tasks'[k] # tasks[k] /\ j # k) => tasks'[j] = tasks[j]
        /\ \A k \in 1..Len(tasks) : tasks[k].pc = "done" => tasks'[k] = tasks[k]
        /\ configs' = configs /\ test_configs' = test_configs

\* C16: each (best configuration, test seed) trial runs on a deep copy of the
\* configuration with its own random_seed, no step of one trial alters the
\* record of another in any interleaving, and the results are collected one
\* per submitted configuration in submission order
C16_Isolation == [](C16_OwnConfig /\ C16_OwnRecord) /\ [][C16_Step]_vars

\* the second trial of a best configuration has returned its record while the
\* first, which has another seed, has not started
C16_Witness ==
    /\ main_pc = "ray.get"
    /\ Len(tasks) >= 2
    /\ tasks[1].pc = "pending" /\ tasks[2].pc = "done"
    /\ tasks[1].config.id = tasks[2].config.id
    /\ tasks[1].config.random_seed # tasks[2].config.random_seed

C11_Unsupported(a) ==
    \/ a.mean_module \notin {"NN", "constant"}
    \/ a.covar_module \notin {"NN", "SE"}
    \/ a.optimizer \notin {"Adam", "SGD"}

C11_NoLearner ==
    /\ learner = "failed"
    /\ cfg = None /\ random_gp = None /\ posterior = None
    /\ optimizer = None /\ lr_scheduler = None
    /\ task_dicts = <<>> /\ ~fitted

StartsWith(s, prefix) == Len(s) >= Len(prefix) /\ SubSeq(s, 1, Len(prefix)) = prefix

NoDuplicates(keys) == \A i, j \in 1..Len(keys) : keys[i] = keys[j] => i = j

\* the values of a GP object along its registry: parameters_as_vector
RECURSIVE Flatten(_)
Flatten(_params) ==
    IF Len(_params) = 0 THEN <<>> ELSE _params[1].tensor.val \o Flatten(Tail(_params))

\* C7: materializing instances and evaluating log-probabilities never writes
\* into the shared structural model RandomGP.gp, every instance a client holds
\* lives in a cell of its own, other than the shared one, and still holds
\* exactly the vector it was materialized from, whatever was materialized
\* after it.
C7_InstancesIndependent ==
    /\ \A i \in 1..Len(instances) :
           /\ instances[i].ref # 1
           /\ instances[i].ref \in 1..Len(gp_heap)
           /\ Flatten(gp_heap[instances[i].ref]._params) = instances[i].vector
           /\ \A j \in 1..Len(instances) : instances[i].ref = instances[j].ref => i = j

C7_SharedUntouched ==
    (random_gp.err = NoErr /\ last_call'.op \in {"get_forward_fn", "log_prob"})
        => /\ gp_heap'[1] = gp_heap[1]
           /\ \A k \in 1..Len(gp_heap) : gp_heap'[k] = gp_heap[k]

C7_DeepCopy == []C7_InstancesIndependent /\ [][C7_SharedUntouched]_vars

\* two instances from different vectors are held, and a likelihood was
\* evaluated after them
C7_Witness ==
    /\ Len(instances) = 2
    /\ instances[1].vector # instances[2].vector
    /\ last_call.op = "log_prob"
    /\ last_call.err = NoErr

\* C8: after RandomGP's constructor, for each supported mean and kernel family,
\* the GP's registry and the prior's registry list the same names in the same
\* order, without repetition: constant_mean or the mean_nn.* groups first, the
\* kernel_nn.* groups next when the kernel is a neural network, then
\* lengthscale, and noise last.
C8_SchemaAligned ==
    (random_gp.err = NoErr /\ n_declares = 0) =>
        LET g == Keys(gp_heap[1]._params)
            q == Keys(random_gp._param_dists)
            n == Len(g)
            mean == gp_heap[1].mean_module_str
            covar == gp_heap[1].covar_module_str
        IN  /\ g = q
            /\ NoDuplicates(q)
            /\ n >= 3
            /\ g[n] = S_noise
            /\ g[n - 1] = S_lengthscale
            /\ mean = "constant" => g[1] = S_constant_mean
            /\ mean = "NN" => StartsWith(g[1], S_mean_nn \o Dot)
            /\ covar = "NN" => StartsWith(g[n - 2], S_kernel_nn \o Dot)
            /\ \A i \in 1..(n - 2) :
                   \/ mean = "constant" /\ i = 1 /\ g[i] = S_constant_mean
                   \/ mean = "NN" /\ StartsWith(g[i], S_mean_nn \o Dot)
                        /\ \A j \in 1..i : StartsWith(g[j], S_mean_nn \o Dot)
                   \/ covar = "NN" /\ StartsWith(g[i], S_kernel_nn \o Dot)
                        /\ \A j \in i..(n - 2) : StartsWith(g[j], S_kernel_nn \o Dot)

\* a random GP with a neural-network mean and a neural-network kernel
C8_Witness ==
    /\ random_gp.err = NoErr
    /\ n_declares = 0
    /\ gp_heap[1].mean_module_str = "NN"
    /\ gp_heap[1].covar_module_str = "NN"
    /\ Len(random_gp._param_dists) > 4

\* C9: the posterior built from the prior's schema registers its
\* distributions under the schema's names, in the schema's order, each with
\* the schema's shape as its event shape.
C9_PosteriorNames ==
    (posterior.err = NoErr /\ n_declares = 0) =>
        /\ Keys(posterior._param_dist_funcs) = Keys(random_gp._param_dists)
        /\ \A i \in 1..Len(random_gp._param_dists) :
               forward(posterior).dists[i].event_shape
                   = random_gp._param_dists[i].dist.event_shape

\* C10: a declaration under a registered name fails by assertion and leaves
\* the registry as it was; a declaration under a new name is appended after
\* every earlier one; a sub-module's parameters are appended as
\* name + '.' + parameter name, in the sub-module's order; no registry ever
\* holds a name twice.
C10_Unique ==
    /\ random_gp.err = NoErr => /\ NoDuplicates(Keys(gp_heap[1]._params))
                                /\ NoDuplicates(Keys(random_gp._param_dists))
    /\ posterior.err = NoErr => NoDuplicates(Keys(posterior._param_dist_funcs))

C10_DeclareStep(before, after, name) ==
    IF \E i \in 1..Len(before) : before[i].name = name
    THEN last_call'.err = "AssertionError" /\ after = before
    ELSE /\ last_call'.err = NoErr
         /\ Len(after) = Len(before) + 1
         /\ SubSeq(after, 1, Len(before)) = before
         /\ after[Len(after)].name = name

C10_ModuleStep(before, after, name, module) ==
    /\ Len(after) >= Len(before)
    /\ SubSeq(after, 1, Len(before)) = before
    /\ \A k \in 1..(Len(after) - Len(before)) :
           after[Len(before) + k].name = name \o <<".">> \o module[k].name
    /\ last_call'.err = NoErr => Len(after) = Len(before) + Len(module)
    /\ last_call'.err # NoErr =>
           /\ last_call'.err = "AssertionError"
           /\ Len(after) < Len(before) + Len(module)
           /\ \E i \in 1..Len(after) :
                  after[i].name
                      = name \o <<".">> \o module[Len(after) - Len(before) + 1].name

C10_Step ==
    /\ last_call'.op = "_param" =>
           C10_DeclareStep(gp_heap[1]._params, gp_heap'[1]._params, last_call'.name)
    /\ last_call'.op = "_param_dist" =>
           C10_DeclareStep(random_gp._param_dists, random_gp'._param_dists, last_call'.name)
    /\ last_call'.op = "_dist" =>
           C10_DeclareStep(posterior._param_dist_funcs, posterior'._param_dist_funcs,
                           last_call'.name)
    /\ last_call'.op = "_param_module" =>
           C10_ModuleStep(gp_heap[1]._params, gp_heap'[1]._params, last_call'.name,
                          NeuralNetworkVectorized(1, 1, <<1>>))

C10_Declarations == []C10_Unique /\ [][C10_Step]_vars

\* a declaration under a registered name has just failed, after an earlier
\* declaration under a new name
C10_Witness ==
    /\ n_declares = 2
    /\ last_call.op = "_param"
    /\ last_call.err = "AssertionError"
    /\ last_call.name = S_extra
    /\ Keys(gp_heap[1]._params)[Len(gp_heap[1]._params)] = S_extra
====
